---- MODULE Spec2Model ----
(***************************************************************************)
(* A state-machine model of the stress-fiber mechanics core:                *)
(*   BindingSite (flins/support/binding_site.py),                           *)
(*   the per-tick scheduler World.step (stress_fiber/construct/world.py),   *)
(*   the crosslinker (flins/proteins/alpha_actinin.py),                     *)
(*   the motor (stress_fiber/proteins/motor.py),                            *)
(*   the actin filament and the anchor (stress_fiber/proteins/).            *)
(*                                                                         *)
(* Positions are real numbers in the program.  The model places them on an  *)
(* integer lattice whose unit is one g-actin rise; every random draw        *)
(* (np.random.rand, np.random.normal) is a nondeterministic choice from a   *)
(* small lattice of values.                                                 *)
(***************************************************************************)
EXTENDS Integers, Sequences, FiniteSets, TLC

(***************************** bounds ***************************************)
MaxTime == 2        \* World.step is called at most this many times
MaxDx == 1          \* |Dx| sample of diffuse.Dx, in lattice units
MaxBop == 1         \* |0.5 * bop_dx| sample of Spring.bop_dx, in lattice units
ProbLevels == 2     \* np.random.rand() is one of 0..ProbLevels-1 (of ProbLevels)
MaxEnergy == 1      \* |energy_target| sample of Actin.step, in energy units
MaxCoord == 4       \* |mol_start|, |mol_end| handed to coerce_to_bounds directly
MaxBoundary == 2    \* the boundaries handed to coerce_to_bounds are in 0..MaxBoundary

(************************ world configuration *******************************)
Rise == 1                       \* Actin._rise: axial distance between pairs
NPairs == 2                     \* Actin n_pair
Length == NPairs * Rise         \* Actin.length
Span == 3 * Rise                \* TractSpace span
ActininRest == 2 * Rise         \* AlphaActinin.spring.rest
MotorRest == <<2 * Rise, 2 * Rise, 1 * Rise>>   \* Motor.spring[state].rest

Actins == {<<"actin", 1>>, <<"actin", 2>>}
Actinins == {<<"actinin", 1>>}
Motors == {<<"motor", 1>>}
Anchors == {<<"anchor", 1>>}
AllMols == Actins \cup Actinins \cup Motors \cup Anchors
\* the order in which the filaments are constructed
ActinList == << <<"actin", 1>>, <<"actin", 2>> >>
\* the populations a world is constructed with (construct.create_test_world
\* takes the per-kind counts): two filaments and a crosslinker, two filaments
\* and a motor, and one anchored filament with a crosslinker and a motor
Worlds == {
    {<<"actin", 1>>, <<"actin", 2>>, <<"actinin", 1>>},
    {<<"actin", 1>>, <<"actin", 2>>, <<"motor", 1>>},
    {<<"actin", 1>>, <<"actinin", 1>>, <<"motor", 1>>, <<"anchor", 1>>} }

(****************************** binding sites *******************************)
None == <<"none", 0, 0>>
PairSites == {<<"gactin", f[2], i>> : f \in Actins, i \in 0..(NPairs - 1)}
ActininHeadSites == {<<"actininhead", c[2], s>> : c \in Actinins, s \in {0, 1}}
MotorHeadSites == {<<"motorhead", m[2], s>> : m \in Motors, s \in {0, 1}}
AnchorSites == {<<"anchorsite", a[2], 0>> : a \in Anchors}
HeadSites == ActininHeadSites \cup MotorHeadSites
Sites == PairSites \cup HeadSites \cup AnchorSites

\* BindingSite.parent: the object that owns the site
Parent(s) ==
    CASE s[1] = "gactin" -> [kind |-> "GActinPair", of |-> <<"actin", s[2]>>, index |-> s[3]]
      [] s[1] = "actininhead" -> [kind |-> "ActininHead", of |-> <<"actinin", s[2]>>, index |-> s[3]]
      [] s[1] = "motorhead" -> [kind |-> "MotorHead", of |-> <<"motor", s[2]>>, index |-> s[3]]
      [] s[1] = "anchorsite" -> [kind |-> "Anchor", of |-> <<"anchor", s[2]>>, index |-> 0]
      [] OTHER -> [kind |-> "None", of |-> <<"none", 0>>, index |-> 0]

\* BindingSite.bound
Bound(l, s) == l[s] # None

\* BindingSite.linked
Linked(l, s) == IF Bound(l, s) THEN Parent(l[s]) ELSE Parent(None)

\* BindingSite.bind: the two assertions
BindRaisesSelfOnly(l, s, o) == Bound(l, s)
BindRaises(l, s, o) == Bound(l, s) \/ Bound(l, o)

\* BindingSite.bind: the two assignments, self.link = other; self.link.link = self
BindLinkOneWay(l, s, o) == [l EXCEPT ![s] = o]
BindLink(l, s, o) ==
    LET l1 == [l EXCEPT ![s] = o]
    IN [l1 EXCEPT ![l1[s]] = s]

\* BindingSite.unbind: the two assertions
UnbindRaisesNever(l, s) == FALSE
UnbindRaises(l, s) == (~Bound(l, s)) \/ (~Bound(l, l[s]))

\* BindingSite.unbind: the two assignments, self.link.link = None; self.link = None
UnbindLinkPartnerOnly(l, s) == [l EXCEPT ![l[s]] = None]
UnbindLinkOneWay(l, s) == [l EXCEPT ![s] = None]
UnbindLink(l, s) ==
    LET l1 == [l EXCEPT ![l[s]] = None]
    IN [l1 EXCEPT ![s] = None]

(******************************* state **************************************)
VARIABLES
    mols,       \* Tract.mols: the molecules registered in the one tract
    registry,   \* Tract.mols and Tract.mols_named as add_mol fills them: per
                \* kind the list of molecules and the map from id to molecule
    anx,        \* Anchor.x
    link,       \* BindingSite.link of every site
    ax,         \* Actin._x of every filament
    cx,         \* AlphaActinin.x
    hx,         \* ActininHead._x
    mx,         \* Motor._x
    mstate,     \* MotorHead.state
    time,       \* World.time
    pc,         \* where World.step is: "idle", "loop", "heads", "raised"
    todo,       \* molecules of the drawn permutation not yet visited
    visits,     \* how many times mol.step() was called in the current tick
    cur,        \* the molecule whose step() is running
    hi,         \* index of the next head the running step() will visit
    err,        \* the exception that left World.step, "none" if none
    call        \* the call under observation: the last direct BindingSite call
                \* (with the call before it), or the Actin.step that has just
                \* returned, with its sample and its return value

vars == <<mols, registry, anx, link, ax, cx, hx, mx, mstate, time, pc, todo, visits, cur, hi, err, call>>
worldVars == <<mols, registry, anx, ax, cx, hx, mx, mstate, time, pc, todo, visits, cur, hi, err>>

NoMol == <<"none", 0>>
\* the call record reduced to what a later call remembers of it
Brief(c) == <<c.op, c.self, c.other, c.raised>>
NoCall == [op |-> "none", self |-> None, other |-> None, raised |-> FALSE,
           before |-> <<"none", None, None, FALSE>>]

\* Anchor.__init__: the anchor is created at the pair's location and bound to it
AnchoredPair(a) == <<"gactin", 1, NPairs - 1>>

\* GActinPair.x on a filament whose origin is x0
PairX(x0, i) == x0 + Rise * i

\* Anchor.__init__: x is the location of the anchored pair at construction,
\* the last pair of filament 1, which starts at 0
AnchorX(a) == PairX(0, AnchoredPair(a)[3])

\* links after construction: every site unbound, then Anchor.__init__ binds
InitLink(reg) ==
    LET l0 == [s \in Sites |-> None]
    IN IF <<"anchor", 1>> \in reg
       THEN BindLink(l0, <<"anchorsite", 1, 0>>, AnchoredPair(<<"anchor", 1>>))
       ELSE l0

Bops == (0 - MaxBop)..MaxBop

\* ActininHead._update_x
UpdateX(x, side, b) == IF side = 0 THEN x - b ELSE x + ActininRest + b

\* the placement the world is constructed with: filament 1 at the left end,
\* filament 2 at the right end of the tract with its last pair anchored
\* (construct.create_test_world anchors the filaments that start or end in the
\* outer tenths of the span), the crosslinker and the motor at the left end
InitWorldVars ==
    /\ ax = [f \in Actins |-> IF f[2] = 1 THEN 0 ELSE Span - Length]
    /\ anx = [a \in Anchors |-> AnchorX(a)]
    /\ cx = [c \in Actinins |-> 0]
    /\ hx = [h \in ActininHeadSites |-> UpdateX(0, h[3], 0)]
    /\ mx = [m \in Motors |-> 0]
    /\ mstate = [h \in MotorHeadSites |-> 0]
    /\ time = 0
    /\ pc = "idle"
    /\ todo = {}
    /\ visits = [m \in AllMols |-> 0]
    /\ cur = NoMol
    /\ hi = 0
    /\ err = "none"

(*********************** direct BindingSite calls ***************************)
\* Tract.__init__: no kind has been seen
NewTract == [list |-> << >>, named |-> << >>]

\* the tract after construct.create_test_world has added the molecules ms,
\* kind by kind, each under the id it was given
Registered(ms) ==
    LET kinds == {m[1] : m \in ms}
        of(k) == {m \in ms : m[1] = k}
    IN [list |-> [k \in kinds |-> [i \in 1..Cardinality(of(k)) |-> <<k, i>>]],
        named |-> [k \in kinds |-> [m \in of(k) |-> m]]]

\* the sites a caller of the BindingSite interface is given
ApiSites == {<<"gactin", 1, 0>>, <<"gactin", 1, 1>>,
             <<"actininhead", 1, 0>>, <<"actininhead", 1, 1>>,
             <<"motorhead", 1, 0>>}

InitSite ==
    /\ mols = AllMols
    /\ InitWorldVars
    /\ link = InitLink(mols)
    /\ call = NoCall
    /\ registry = Registered(mols)

\* s.bind(o)
Bind(s, o) ==
    /\ call' = [op |-> "bind", self |-> s, other |-> o,
                raised |-> BindRaises(link, s, o), before |-> Brief(call)]
    /\ link' = IF BindRaises(link, s, o) THEN link ELSE BindLink(link, s, o)
    /\ UNCHANGED worldVars

\* s.unbind()
Unbind(s) ==
    /\ call' = [op |-> "unbind", self |-> s, other |-> None,
                raised |-> UnbindRaises(link, s), before |-> Brief(call)]
    /\ link' = IF UnbindRaises(link, s) THEN link ELSE UnbindLink(link, s)
    /\ UNCHANGED worldVars

NextSite ==
    \/ \E s \in ApiSites, o \in ApiSites : Bind(s, o)
    \/ \E s \in ApiSites : Unbind(s)

SpecSite == InitSite /\ [][NextSite]_vars


(***************************** geometry *************************************)
Abs(v) == IF v < 0 THEN 0 - v ELSE v

\* np.argmin: the first index (1-based here) that holds the minimum
ArgMin(seq) ==
    CHOOSE i \in 1..Len(seq) :
        /\ \A j \in 1..Len(seq) : seq[i] <= seq[j]
        /\ \A j \in 1..(i - 1) : seq[j] > seq[i]

\* GActinPair.filament
Filament(g) == <<"actin", g[2]>>

\* GActinPair.x: filament.pairs_x[index]
SiteX(a, g) == PairX(a[Filament(g)], g[3])

\* Actin.nearest
ActinNearest(a, f, x) ==
    IF x < a[f] THEN <<"gactin", f[2], 0>>
    ELSE IF x > a[f] + Length THEN <<"gactin", f[2], NPairs - 1>>
    ELSE <<"gactin", f[2],
           ArgMin([i \in 1..NPairs |-> Abs(x - PairX(a[f], i - 1))]) - 1>>

\* tract.mols["actin"] of the one tract of a radius-0 space, whose reachable
\* list is the tract itself
RegisteredActins(reg) == SelectSeq(ActinList, LAMBDA f : f \in reg)

\* Tract.nearest_binding_site raises when no filament is registered
NearestRaises(reg) == Len(RegisteredActins(reg)) = 0

\* a search that asks the first registered filament only
NearestBindingSiteFirstFilament(reg, a, x) ==
    ActinNearest(a, RegisteredActins(reg)[1], x)

\* Tract.nearest_binding_site
NearestBindingSite(reg, a, x) ==
    LET actins == RegisteredActins(reg)
        near == [n \in 1..Len(actins) |-> ActinNearest(a, actins[n], x)]
        distances == [n \in 1..Len(actins) |-> Abs(SiteX(a, near[n]) - x)]
    IN near[ArgMin(distances)]

\* diffuse.coerce_to_bounds: the two checks that raise Exception
CoerceRaisesReversedIgnored(m1, m2, b1, b2) == m2 - m1 > b2 - b1 \/ b1 > b2
CoerceRaises(m1, m2, b1, b2) == m2 - m1 > b2 - b1 \/ m1 > m2 \/ b1 > b2

\* diffuse.coerce_to_bounds: a segment exactly as long as the span that is not
\* on the span is bounced from one boundary to the other and back to where it
\* was: the recursion never returns and Python ends it with RecursionError
CoerceNeverSettles(m1, m2, b1, b2) == m2 - m1 = b2 - b1 /\ m1 # b1

\* diffuse.coerce_to_bounds
RECURSIVE CoerceToBounds(_, _, _, _)
CoerceToBounds(m1, m2, b1, b2) ==
    IF CoerceRaises(m1, m2, b1, b2)
    THEN [raised |-> TRUE, error |-> "Exception", start |-> m1, end |-> m2]
    ELSE IF CoerceNeverSettles(m1, m2, b1, b2)
    THEN [raised |-> TRUE, error |-> "RecursionError", start |-> m1, end |-> m2]
    ELSE IF m1 < b1
         THEN CoerceToBounds(m1 + 2 * (b1 - m1), m2 + 2 * (b1 - m1), b1, b2)
    ELSE IF m2 > b2
         THEN CoerceToBounds(m1 - 2 * (m2 - b2), m2 - 2 * (m2 - b2), b1, b2)
    ELSE [raised |-> FALSE, error |-> "none", start |-> m1, end |-> m2]

\* diffuse.Dx: one Gaussian displacement sample
Dxs == (0 - MaxDx)..MaxDx

\* np.random.rand() and kinetics.rate_to_prob(rate, timestep), as levels
Checks == 0..(ProbLevels - 1)
Probs == 0..ProbLevels

(******************** direct nearest_binding_site calls *********************)
\* actin.x = x: the filament is put somewhere in its window and pairs_x follows
PlaceFilament(f, x) ==
    /\ f \in mols
    /\ ax' = [ax EXCEPT ![f] = x]
    /\ call' = NoCall
    /\ UNCHANGED <<mols, registry, anx, link, cx, hx, mx, mstate, time, pc, todo,
                   visits, cur, hi, err>>

\* tract.nearest_binding_site(x), called on its own
NearestCall(x) ==
    /\ call' = [op |-> "nearest_binding_site", self |-> None, other |-> None,
                raised |-> FALSE, before |-> Brief(NoCall),
                args |-> x, out |-> NearestBindingSite(mols, ax, x)]
    /\ UNCHANGED <<link, worldVars>>

NextNearest ==
    \/ \E f \in Actins, x \in 0..(Span - Length) : PlaceFilament(f, x)
    \/ \E x \in (0 - MaxCoord)..(Span + MaxCoord) : NearestCall(x)

(*********************** direct coerce_to_bounds calls **********************)
Coords == (0 - MaxCoord)..MaxCoord
Boundaries == 0..MaxBoundary

\* coerce_to_bounds(mol_start, mol_end, (b1, b2)), called on its own
CoerceCall(m1, m2, b1, b2) ==
    LET r == CoerceToBounds(m1, m2, b1, b2)
    IN /\ call' = [op |-> "coerce_to_bounds", self |-> None, other |-> None,
                   raised |-> r.raised, before |-> Brief(NoCall),
                   args |-> <<m1, m2, b1, b2>>, error |-> r.error,
                   out |-> <<r.start, r.end>>]
       /\ UNCHANGED <<link, worldVars>>

NextCoerce ==
    \E m1 \in Coords, m2 \in Coords, b1 \in Boundaries, b2 \in Boundaries :
        CoerceCall(m1, m2, b1, b2)

SpecCoerce == InitSite /\ [][NextCoerce]_vars

(************************** Tract.add_mol calls *****************************)
\* the most molecules that are added to the tract
MaxAdds == 4

InitTract ==
    /\ mols = AllMols
    /\ InitWorldVars
    /\ link = InitLink(mols)
    /\ call = NoCall
    /\ registry = NewTract

\* an add_mol that tracks whatever it is given
AddMolRaisesNever(list, mol) == FALSE

\* "assert mol not in self.mols[kind]"
AddMolRaises(list, mol) == \E i \in 1..Len(list) : list[i] = mol

\* tract.add_mol(kind, mol); the id is names.unique_name(), a fresh uuid4
AddMol(kind, mol) ==
    LET list == IF kind \in DOMAIN registry.list THEN registry.list[kind] ELSE << >>
        named == IF kind \in DOMAIN registry.named THEN registry.named[kind] ELSE << >>
        issued == UNION {DOMAIN registry.named[k] : k \in DOMAIN registry.named}
        id == Cardinality(issued) + 1
        raises == AddMolRaises(list, mol)
    IN /\ Cardinality(issued) < MaxAdds
       /\ call' = [op |-> "add_mol", self |-> None, other |-> None,
                   raised |-> raises, before |-> Brief(NoCall),
                   args |-> <<kind, mol>>, out |-> IF raises THEN 0 ELSE id]
       /\ registry' =
            IF raises THEN registry
            ELSE [list |-> (kind :> Append(list, mol)) @@ registry.list,
                  named |-> (kind :> ((id :> mol) @@ named)) @@ registry.named]
       /\ UNCHANGED <<mols, link, anx, ax, cx, hx, mx, mstate, time, pc, todo,
                      visits, cur, hi, err>>

NextTract ==
    \E kind \in {"actin", "actinin"},
       mol \in {<<"actin", 1>>, <<"actin", 2>>, <<"actinin", 1>>} : AddMol(kind, mol)

SpecTract == InitTract /\ [][NextTract]_vars

(****************** coerce_to_bounds, one call frame at a time **************)
\* the frame of coerce_to_bounds that is running: its arguments, and whether
\* the outermost call has returned or raised
Frame(m1, m2, b1, b2, done, raised) ==
    [op |-> "coerce_to_bounds frame", self |-> None, other |-> None,
     raised |-> raised, before |-> Brief(NoCall),
     args |-> <<m1, m2, b1, b2>>, done |-> done]

\* a caller calls coerce_to_bounds: the two checks raise at once
CoerceEnter(m1, m2, b1, b2) ==
    /\ call.op = "coerce_to_bounds frame" => call.done
    /\ call' = Frame(m1, m2, b1, b2, CoerceRaises(m1, m2, b1, b2),
                     CoerceRaises(m1, m2, b1, b2))
    /\ UNCHANGED <<link, worldVars>>

\* "if m1 < b1" / "elif m2 > b2": the frame calls itself on the reflected
\* segment (the checks pass again: the length and the bounds are the same)
CoerceBounce ==
    /\ call.op = "coerce_to_bounds frame" /\ ~call.done
    /\ LET m1 == call.args[1]
           m2 == call.args[2]
           b1 == call.args[3]
           b2 == call.args[4]
       IN \/ /\ m1 < b1
             /\ call' = Frame(m1 + 2 * (b1 - m1), m2 + 2 * (b1 - m1), b1, b2,
                              FALSE, FALSE)
          \/ /\ m1 >= b1 /\ m2 > b2
             /\ call' = Frame(m1 - 2 * (m2 - b2), m2 - 2 * (m2 - b2), b1, b2,
                              FALSE, FALSE)
    /\ UNCHANGED <<link, worldVars>>

\* "return m1, m2": the segment is inside, every frame returns it unchanged
CoerceReturn ==
    /\ call.op = "coerce_to_bounds frame" /\ ~call.done
    /\ call.args[1] >= call.args[3] /\ call.args[2] <= call.args[4]
    /\ call' = [call EXCEPT !.done = TRUE]
    /\ UNCHANGED <<link, worldVars>>

NextBounce ==
    \/ \E m1 \in Coords, m2 \in Coords, b1 \in Boundaries, b2 \in Boundaries :
           CoerceEnter(m1, m2, b1, b2)
    \/ CoerceBounce
    \/ CoerceReturn

\* a frame that can run does run
SpecBounce ==
    InitSite /\ [][NextBounce]_vars /\ WF_vars(CoerceBounce \/ CoerceReturn)

(***************************** hexagonal grid *******************************)
\* the largest grid radius and the largest cube coordinate that are tried
MaxRadius == 2
MaxCube == 4

CubeRange == (0 - MaxCube)..MaxCube
Radii == 0..MaxRadius

\* cube.validate
CubeValidate(c) == c[1] + c[2] + c[3] = 0

\* the coordinates handed to the grid: every valid cube coordinate in range
CubeLocs == {c \in CubeRange \X CubeRange \X CubeRange : CubeValidate(c)}

Max3(a, b, c) == IF a >= b /\ a >= c THEN a ELSE IF b >= c THEN b ELSE c

\* cube.within_radius about the origin, HexGrid.within
WithinRadius(c, n) == Max3(Abs(c[1]), Abs(c[2]), Abs(c[3])) <= n

\* cube.distance: half the summed coordinate differences (whole on valid
\* coordinates, the only ones it is given here)
CubeDistance(a, b) ==
    (Abs(a[1] - b[1]) + Abs(a[2] - b[2]) + Abs(a[3] - b[3])) \div 2

\* cube.neighbors, in the order of the list
CubeNeighbors(c) ==
    << <<c[1], c[2] + 1, c[3] - 1>>, <<c[1] + 1, c[2], c[3] - 1>>,
       <<c[1] + 1, c[2] - 1, c[3]>>, <<c[1], c[2] - 1, c[3] + 1>>,
       <<c[1] - 1, c[2], c[3] + 1>>, <<c[1] - 1, c[2] + 1, c[3]>> >>

\* np.roll([i, j, k], n_steps): element p moves to place p + n_steps
Roll(c, steps) == [p \in 1..3 |-> c[((p - 1 - steps) % 3) + 1]]

\* cube.rotate_about_center: odd rotations invert signs
RotateAboutCenter(c, steps) ==
    LET r == Roll(c, steps)
    IN IF steps % 2 = 1 THEN <<0 - r[1], 0 - r[2], 0 - r[3]>>
       ELSE <<r[1], r[2], r[3]>>

CubeAdd(a, b) == <<a[1] + b[1], a[2] + b[2], a[3] + b[3]>>
CubeSubtract(a, b) == <<a[1] - b[1], a[2] - b[2], a[3] - b[3]>>

\* cube.closest: the first of the points at the least distance
Closest(c, points) ==
    points[ArgMin([p \in 1..Len(points) |-> CubeDistance(c, points[p])])]

\* HexGrid._find_mirrored_centers
MirroredCentersOnAxes(n) ==
    [s \in 1..6 |-> RotateAboutCenter(<<2 * n, 0 - n, 0 - n>>, s - 1)]
MirroredCenters(n) ==
    [s \in 1..6 |-> RotateAboutCenter(<<2 * n + 1, 0 - n, 0 - n - 1>>, s - 1)]

\* HexGrid.mirror
Mirror(n, loc) ==
    IF WithinRadius(loc, n) THEN loc
    ELSE CubeSubtract(loc, Closest(loc, MirroredCenters(n)))

\* neighbours that are kept whichever side of the boundary they are on
GridNeighborsUnfolded(n, mirror, loc) ==
    IF n = 0 THEN << >> ELSE CubeNeighbors(loc)

\* HexGrid.neighbors
GridNeighbors(n, mirror, loc) ==
    IF n = 0 THEN << >>
    ELSE IF mirror THEN [p \in 1..6 |-> Mirror(n, CubeNeighbors(loc)[p])]
    ELSE SelectSeq(CubeNeighbors(loc), LAMBDA c : WithinRadius(c, n))

\* the None that HexGrid.distance returns, which is no distance
NoDistance == 0 - 1

\* HexGrid.distance
GridDistance(n, mirror, loc1, loc2) ==
    IF ~CubeValidate(loc1) \/ ~CubeValidate(loc2) THEN NoDistance
    ELSE IF ~mirror
    THEN IF ~WithinRadius(loc1, n) \/ ~WithinRadius(loc2, n) THEN NoDistance
         ELSE CubeDistance(loc1, loc2)
    ELSE LET versions == <<loc2>> \o [s \in 1..6 |->
                              CubeAdd(MirroredCenters(n)[s], loc2)]
         IN CubeDistance(loc1, Closest(loc1, versions))

\* an axial form that keeps the first two cube coordinates
CubeToAxialIJ(c) == <<c[1], c[2]>>

\* cube.to_axial
CubeToAxial(c) == <<c[1], c[3]>>

\* axial.to_cube
AxialToCube(a) == <<a[1], 0 - a[1] - a[2], a[2]>>

HexCall(op, args, out) ==
    /\ call' = [op |-> op, self |-> None, other |-> None, raised |-> FALSE,
                before |-> Brief(NoCall), args |-> args, out |-> out]
    /\ UNCHANGED <<link, worldVars>>

\* grid = HexGrid(n, mirror); nbs = grid.neighbors(loc), and the distance the
\* grid gives from loc to each of them
NeighborsCall(n, mirror, loc) ==
    LET nbs == GridNeighbors(n, mirror, loc)
    IN HexCall("neighbors", <<n, mirror, loc>>,
               [p \in 1..Len(nbs) |->
                   [nb |-> nbs[p], distance |-> GridDistance(n, mirror, loc, nbs[p])]])

\* HexGrid(n, True).mirror(loc)
MirrorCall(n, loc) == HexCall("mirror", <<n, loc>>, Mirror(n, loc))

\* axial.to_cube(*cube.to_axial(i, j, k))
RoundTripCall(c) == HexCall("round_trip", c, AxialToCube(CubeToAxial(c)))

NextHex ==
    \/ \E n \in Radii, mirror \in BOOLEAN, loc \in CubeLocs :
           NeighborsCall(n, mirror, loc)
    \/ \E n \in Radii, loc \in CubeLocs : MirrorCall(n, loc)
    \/ \E c \in CubeRange \X CubeRange \X CubeRange : RoundTripCall(c)

SpecHex == InitSite /\ [][NextHex]_vars

(******************************** kinetics **********************************)
\* Floats are kept by their binary exponent: a finite positive float is
\* 2^e with e in -MaxExponent..MaxExponent, and there are 0.0, inf and nan.
\* Free energies and rate * duration are whole multiples of ln 2, so that
\* math.exp of them is a power of two.
MaxExponent == 3
MaxFreeEnergy == 2
MaxRateExponent == 1

Zero == [kind |-> "zero", e |-> 0]
Inf == [kind |-> "inf", e |-> 0]
Fin(e) == [kind |-> "fin", e |-> e]

\* the result of float arithmetic with exponent e: overflow gives inf,
\* underflow gives 0.0
Rounded(e) ==
    IF e > MaxExponent THEN Inf ELSE IF e < 0 - MaxExponent THEN Zero ELSE Fin(e)

\* math.exp(d): OverflowError past the largest float, 0.0 below the smallest
MathExp(d) ==
    IF d > MaxExponent THEN [raised |-> TRUE, v |-> Inf]
    ELSE [raised |-> FALSE, v |-> Rounded(d)]

\* rate / term for a finite rate >= 0: ZeroDivisionError on a zero divisor
FloatDivide(rate, term) ==
    IF term.kind = "zero" THEN [raised |-> TRUE, v |-> Zero]
    ELSE IF rate.kind = "zero" \/ term.kind = "inf" THEN [raised |-> FALSE, v |-> Zero]
    ELSE [raised |-> FALSE, v |-> Rounded(rate.e - term.e)]

\* a division whose ZeroDivisionError nobody handles
ZeroDivisionUncaught(quotient) == FALSE

\* "except ZeroDivisionError: rate = float('inf')"
ZeroDivisionCaught(quotient) == quotient.raised

\* kinetics.reverse_rate
ReverseRate(rate_12, free_energy_1, free_energy_2) ==
    LET exp == MathExp(free_energy_1 - free_energy_2)
        energy_term == IF exp.raised THEN Inf ELSE exp.v
        quotient == FloatDivide(rate_12, energy_term)
    IN IF ZeroDivisionCaught(quotient) THEN [raised |-> FALSE, rate |-> Inf]
       ELSE IF quotient.raised THEN [raised |-> TRUE, rate |-> Zero]
       ELSE [raised |-> FALSE, rate |-> quotient.v]

\* the finite rates >= 0 and the free energies that are tried
Rates == {Zero} \cup {Fin(e) : e \in (0 - MaxRateExponent)..MaxRateExponent}
FreeEnergies == (0 - MaxFreeEnergy)..MaxFreeEnergy

\* kinetics.reverse_rate(rate_12, free_energy_1, free_energy_2), called on its own
ReverseRateCall(rate_12, fe1, fe2) ==
    LET r == ReverseRate(rate_12, fe1, fe2)
    IN /\ call' = [op |-> "reverse_rate", self |-> None, other |-> None,
                   raised |-> r.raised, before |-> Brief(NoCall),
                   args |-> <<rate_12, fe1, fe2>>, out |-> r.rate]
       /\ UNCHANGED <<link, worldVars>>

\* Probabilities are kept in units of 2^-ExpBits, the spacing of the floats
\* just below 1.0
ExpBits == 4
One == 2 ^ ExpBits
MaxRate == 3
MaxObsDuration == 2

\* "1 - m.exp(...)" of a term too small for the subtraction to see
BelowOne(n) == n > ExpBits

\* m.exp(-rate * obs_duration) for rate * obs_duration = n * ln 2
ExpOfMinus(n) == IF BelowOne(n) THEN 0 ELSE 2 ^ (ExpBits - n)

\* the first-order approximation rate * obs_duration (ln 2 is 0.693...)
RateToProbLinear(rate, obs_duration) ==
    (rate * obs_duration * 693 * One) \div 1000

\* kinetics.rate_to_prob
RateToProb(rate, obs_duration) == One - ExpOfMinus(rate * obs_duration)

\* kinetics.rate_to_prob(rate, obs_duration), called on its own
RateToProbCall(rate, obs_duration) ==
    /\ call' = [op |-> "rate_to_prob", self |-> None, other |-> None,
                raised |-> FALSE, before |-> Brief(NoCall),
                args |-> <<rate, obs_duration>>,
                out |-> RateToProb(rate, obs_duration)]
    /\ UNCHANGED <<link, worldVars>>

\* the stiffnesses and rest lengths a spring is asked for
MaxStiffness == 2
MaxRest == 2

\* Spring.__init__: kT / k is a float division, numpy's sqrt of a negative
\* number is nan (with a RuntimeWarning), and nothing looks at the sign of k
SpringInit(k, rest) ==
    IF k = 0
    THEN [raised |-> TRUE, error |-> "ZeroDivisionError", k |-> k, rest |-> rest,
          stand_dev |-> "none"]
    ELSE [raised |-> FALSE, error |-> "none", k |-> k, rest |-> rest,
          stand_dev |-> IF k < 0 THEN "nan" ELSE "sqrt(kT / k)"]

\* spring.Spring(k, rest)
SpringCall(k, rest) ==
    LET r == SpringInit(k, rest)
    IN /\ call' = [op |-> "Spring", self |-> None, other |-> None,
                   raised |-> r.raised, before |-> Brief(NoCall),
                   args |-> <<k, rest>>, error |-> r.error,
                   out |-> <<r.k, r.rest, r.stand_dev>>]
       /\ UNCHANGED <<link, worldVars>>

NextSupport ==
    \/ \E rate_12 \in Rates, fe1 \in FreeEnergies, fe2 \in FreeEnergies :
           ReverseRateCall(rate_12, fe1, fe2)
    \/ \E rate \in 0..MaxRate, dt \in 0..MaxObsDuration : RateToProbCall(rate, dt)
    \/ \E k \in (0 - MaxStiffness)..MaxStiffness, rest \in 0..MaxRest :
           SpringCall(k, rest)

SpecSupport == InitSite /\ [][NextSupport]_vars

(******************************* molecules **********************************)
HeadOf(m, side) ==
    IF m[1] = "actinin" THEN <<"actininhead", m[2], side>>
    ELSE <<"motorhead", m[2], side>>

\* Head.other_head / MotorHead.other_head: parent.heads[side ^ 1]
OtherHead(h) == <<h[1], h[2], 1 - h[3]>>

\* Actin.bound
ActinBound(l, f) == \E i \in 0..(NPairs - 1) : Bound(l, <<"gactin", f[2], i>>)

\* AlphaActinin.bound / Motor.bound
MolBound(l, m) == Bound(l, HeadOf(m, 0)) \/ Bound(l, HeadOf(m, 1))

\* Motor.state
Max(a, b) == IF a >= b THEN a ELSE b
MotorState(ms, m) == Max(ms[HeadOf(m, 0)], ms[HeadOf(m, 1)])

\* Motor._which_bound
WhichBound(l, m) ==
    LET left == Bound(l, HeadOf(m, 0))
        right == Bound(l, HeadOf(m, 1))
    IN IF ~left /\ ~right THEN "none"
       ELSE IF left /\ ~right THEN "left"
       ELSE IF ~left /\ right THEN "right"
       ELSE "both"

\* Motor.locs
Locs(l, a, x, ms, m) ==
    LET bound == WhichBound(l, m)
        rest == MotorRest[MotorState(ms, m) + 1]
    IN CASE bound = "none" -> <<x[m], x[m] + rest>>
         [] bound = "left" -> <<SiteX(a, l[HeadOf(m, 0)]), SiteX(a, l[HeadOf(m, 0)]) + rest>>
         [] bound = "right" -> <<SiteX(a, l[HeadOf(m, 1)]) - rest, SiteX(a, l[HeadOf(m, 1)])>>
         [] OTHER -> <<SiteX(a, l[HeadOf(m, 0)]), SiteX(a, l[HeadOf(m, 1)])>>

\* a head that answers with its cached estimate whether bound or not
ActininHeadXCached(l, a, h) == hx[h]

\* ActininHead.x
ActininHeadX(l, a, h) == IF Bound(l, h) THEN SiteX(a, l[h]) ELSE hx[h]

\* head.x of a crosslinker head or a motor head
HeadXOf(l, a, ms, h) ==
    IF h[1] = "actininhead" THEN ActininHeadX(l, a, h)
    ELSE Locs(l, a, mx, ms, <<"motor", h[2]>>)[h[3] + 1]

\* the rest length of the spring a head pulls on: parent.spring.rest for a
\* crosslinker, parent.spring[parent.state].rest for a motor
HeadRest(ms, h) ==
    IF h[1] = "actininhead" THEN ActininRest
    ELSE MotorRest[MotorState(ms, <<"motor", h[2]>>) + 1]

\* Spring.k, in units that keep 0.5 * k an integer
SpringK == 2

\* Spring.force and Spring.energy
SpringForce(rest, length) == SpringK * (length - rest)
SpringEnergy(rest, length) == (SpringK \div 2) * (length - rest) * (length - rest)

\* _spring_property: "If other head isn't bound, can't bear energy/strain"
HeadBearsNoLoadOwnSite(l, h) == ~Bound(l, h)
HeadBearsNoLoad(l, h) == ~Bound(l, OtherHead(h))

\* ActininHead.energy / MotorHead.energy at location x
HeadEnergy(l, a, ms, h, x) ==
    IF HeadBearsNoLoad(l, h) THEN 0
    ELSE SpringEnergy(HeadRest(ms, h), Abs(x - HeadXOf(l, a, ms, OtherHead(h))))

\* ActininHead.force / MotorHead.force at location x
HeadForce(l, a, ms, h, x) ==
    LET mult == IF HeadXOf(l, a, ms, h) > HeadXOf(l, a, ms, OtherHead(h))
                THEN 0 - 1 ELSE 1
        prop == IF HeadBearsNoLoad(l, h) THEN 0
                ELSE SpringForce(HeadRest(ms, h),
                                 Abs(x - HeadXOf(l, a, ms, OtherHead(h))))
    IN prop * mult


(**************************** head kinetics *********************************)
NoError == "none"
Same(l, ms) == [l |-> l, ms |-> ms, e |-> NoError]

\* ActininHead._bind_or_not: "don't bind if site is already taken"
ActininSiteTakenIgnored(l, gactin) == FALSE
ActininSiteTaken(l, gactin) == Bound(l, gactin)

\* ActininHead._bind_or_not: "don't self bind"
ActininSelfBindIgnored(l, h, gactin) == FALSE
ActininSelfBind(l, h, gactin) ==
    Bound(l, OtherHead(h)) /\ Filament(l[OtherHead(h)]) = Filament(gactin)

\* ActininHead._bind_or_not; x is the head's location, p the binding
\* probability rate_to_prob(_r01(dist)) and check the np.random.rand() draw
ActininBindOrNot(reg, l, a, h, x, p, check) ==
    LET gactin == NearestBindingSite(reg, a, x)
    IN IF NearestRaises(reg) THEN [l |-> l, e |-> "KeyError: actin"]
       ELSE IF ActininSiteTaken(l, gactin) THEN [l |-> l, e |-> NoError]
       ELSE IF ActininSelfBind(l, h, gactin) THEN [l |-> l, e |-> NoError]
       ELSE IF p > check
            THEN IF BindRaises(l, h, gactin)
                 THEN [l |-> l, e |-> "AssertionError: already-bound site"]
                 ELSE [l |-> BindLink(l, h, gactin), e |-> NoError]
       ELSE [l |-> l, e |-> NoError]

\* ActininHead._unbind_or_not; p is rate_to_prob(_r10())
ActininUnbindOrNot(l, h, p, check) ==
    IF p > check
    THEN IF UnbindRaises(l, h)
         THEN [l |-> l, e |-> "AssertionError: unbound site"]
         ELSE [l |-> UnbindLink(l, h), e |-> NoError]
    ELSE [l |-> l, e |-> NoError]

\* MotorHead.step in state 0: "Don't self bind"
MotorSelfBindIgnored(l, h, bs) == FALSE
MotorSelfBind(l, h, bs) ==
    Bound(l, OtherHead(h)) /\ Filament(l[OtherHead(h)]) = Filament(bs)

\* MotorHead.step in state 0 (bs given); p is rate_to_prob(_r01(dist))
MotorHeadStep0SkipsWeak(l, ms, h, bs, p, check) ==
    IF MotorSelfBind(l, h, bs)
    THEN Same(l, ms)
    ELSE IF p > check
         THEN IF BindRaises(l, h, bs)
              THEN [l |-> l, ms |-> ms, e |-> "AssertionError: already-bound site"]
              ELSE [l |-> BindLink(l, h, bs), ms |-> [ms EXCEPT ![h] = 2],
                    e |-> NoError]
    ELSE Same(l, ms)
MotorHeadStep0(l, ms, h, bs, p, check) ==
    IF MotorSelfBind(l, h, bs)
    THEN Same(l, ms)
    ELSE IF p > check
         THEN IF BindRaises(l, h, bs)
              THEN [l |-> l, ms |-> ms, e |-> "AssertionError: already-bound site"]
              ELSE [l |-> BindLink(l, h, bs), ms |-> [ms EXCEPT ![h] = 1],
                    e |-> NoError]
    ELSE Same(l, ms)

\* MotorHead.step, leaving state 1 or 2 for state 0: the state is assigned
\* before unbind() is called
MotorDetachKeepsLink(l, ms, h) ==
    [l |-> l, ms |-> [ms EXCEPT ![h] = 0], e |-> NoError]
MotorDetach(l, ms, h) ==
    IF UnbindRaises(l, h)
    THEN [l |-> l, ms |-> [ms EXCEPT ![h] = 0], e |-> "AssertionError: unbound site"]
    ELSE [l |-> UnbindLink(l, h), ms |-> [ms EXCEPT ![h] = 0], e |-> NoError]

\* MotorHead.step in state 1 (length given); p12 and p10 are the probabilities
\* of _r12(length) and _r10(length)
MotorHeadStep1DetachFirst(l, ms, h, p12, p10, check) ==
    IF ProbLevels - p10 < check THEN MotorDetach(l, ms, h)
    ELSE IF p12 > check THEN [l |-> l, ms |-> [ms EXCEPT ![h] = 2], e |-> NoError]
    ELSE Same(l, ms)
MotorHeadStep1(l, ms, h, p12, p10, check) ==
    IF p12 > check THEN [l |-> l, ms |-> [ms EXCEPT ![h] = 2], e |-> NoError]
    ELSE IF ProbLevels - p10 < check THEN MotorDetach(l, ms, h)
    ELSE Same(l, ms)

\* MotorHead.step in state 2 (length given); p20 and p21 are the probabilities
\* of _r20(length) and _r21(length)
MotorHeadStep2(l, ms, h, p20, p21, check) ==
    IF p20 > check THEN MotorDetach(l, ms, h)
    ELSE IF ProbLevels - p21 < check
         THEN [l |-> l, ms |-> [ms EXCEPT ![h] = 1], e |-> NoError]
    ELSE Same(l, ms)

\* head.step(bs, length) on a head in the given state: a head in state 1 or 2
\* is bound to the free pair bs, a head in state 0 is handed bs as the site to
\* bind; check is the one np.random.rand() of the call, and pa, pb are the
\* probabilities of the state's first and second rate
MotorHeadStepCall(h, state, bs, pa, pb, check) ==
    LET l == IF state = 0 THEN link ELSE BindLink(link, h, bs)
        ms == [mstate EXCEPT ![h] = state]
        r == IF state = 0 THEN MotorHeadStep0(l, ms, h, bs, pa, check)
             ELSE IF state = 1 THEN MotorHeadStep1(l, ms, h, pa, pb, check)
             ELSE MotorHeadStep2(l, ms, h, pa, pb, check)
    IN /\ state # 0 => ~Bound(link, bs)
       /\ call' = [op |-> "MotorHead.step", self |-> h, other |-> bs,
                   raised |-> r.e # NoError, before |-> Brief(NoCall),
                   args |-> <<state, pa, pb, check>>,
                   out |-> <<r.ms[h], Bound(r.l, h)>>]
       /\ UNCHANGED <<link, worldVars>>

NextHead ==
    \E h \in MotorHeadSites, state \in 0..2, bs \in PairSites,
       pa \in Probs, pb \in Probs, check \in Checks :
        MotorHeadStepCall(h, state, bs, pa, pb, check)

SpecHead == InitSite /\ [][NextHead]_vars

\* Motor.step: a head in state 0 is stepped only "if not gact.bs.bound"
MotorSiteFreeIgnored(l, gact) == TRUE
MotorSiteFree(l, gact) == ~Bound(l, gact)

\* the body of the loop of Motor.step for one head
MotorVisitHead(reg, l, a, x, ms, m, side, pa, pb, check) ==
    LET h == HeadOf(m, side)
        headx == Locs(l, a, x, ms, m)[side + 1]
        gact == NearestBindingSite(reg, a, headx)
    IN IF ms[h] = 0
       THEN IF NearestRaises(reg) THEN [l |-> l, ms |-> ms, e |-> "KeyError: actin"]
            ELSE IF MotorSiteFree(l, gact)
            THEN MotorHeadStep0(l, ms, h, gact, pa, check)
            ELSE Same(l, ms)
       ELSE IF ms[h] = 1 THEN MotorHeadStep1(l, ms, h, pa, pb, check)
       ELSE MotorHeadStep2(l, ms, h, pa, pb, check)

\* Motor._update_x
MotorUpdateX(l, a, x, ms, m) ==
    LET bound == WhichBound(l, m)
    IN IF bound = "none" THEN x[m]
       ELSE IF bound = "left" \/ bound = "both" THEN SiteX(a, l[HeadOf(m, 0)])
       ELSE SiteX(a, l[HeadOf(m, 1)]) - MotorRest[MotorState(ms, m) + 1]

\* a force balance whose solution is used as the solver returns it
ForceXsUnwindowed(l, a, f) ==
    IF ~ActinBound(l, f) THEN {a[f]} ELSE (0 - 1)..(Span - Length + 1)

(****************************** filament motion *****************************)
\* Actin._x_with_balanced_forces: the filament's own x when nothing is bound,
\* otherwise the least-squares estimate clipped by window_x to the x limits
ForceXs(l, a, f) ==
    IF ~ActinBound(l, f) THEN {a[f]} ELSE 0..(Span - Length)

\* GActinPair.energy(x): the energy of whatever is linked to the pair;
\* Anchor.energy is 0
PairEnergy(l, a, ms, g, x) ==
    IF ~Bound(l, g) THEN 0
    ELSE IF l[g][1] = "anchorsite" THEN 0
    ELSE HeadEnergy(l, a, ms, l[g], x)

\* Actin._hypothetical_energy(x): the sum over the bound pairs of the filament
\* placed at x
HypotheticalEnergy(l, a, ms, f, x) ==
    LET sum[i \in 0..NPairs] ==
            IF i = 0 THEN 0
            ELSE sum[i - 1] + PairEnergy(l, a, ms, <<"gactin", f[2], i - 1>>,
                                         PairX(x, i - 1))
    IN sum[NPairs]

\* Actin.step: energy_target, one sample of np.random.normal(0, 0.5 * kT)
Energies == (0 - MaxEnergy)..MaxEnergy

\* Actin._drag, in energy units per lattice unit
Drag == 1

\* Actin._move_to_dissipate_energy: the bounds handed to the solver
MoveBoundsWholeWindow(neg, startx) == <<0, Span - Length>>
MoveBounds(neg, startx) ==
    IF neg THEN <<0, startx>> ELSE <<startx, Span - Length>>

\* Actin._move_to_dissipate_energy: the solver is handed infeasible bounds
MoveRaises(target, startx) ==
    LET bounds == MoveBounds(target < 0, startx)
    IN bounds[1] > bounds[2]

\* Actin._move_to_dissipate_energy: the locations the solve can return.  With
\* no spring bound the mismatch |budget| - drag * |x_i - x| has one root, which
\* the bounds clip; with springs bound it is some location within the bounds
MoveToDissipateEnergy(l, f, target, startx) ==
    LET bounds == MoveBounds(target < 0, startx)
        root == startx + (target \div Drag)
    IN IF bounds[1] = bounds[2] THEN {startx}
       ELSE IF ~ActinBound(l, f)
            THEN {IF root < bounds[1] THEN bounds[1]
                  ELSE IF root > bounds[2] THEN bounds[2] ELSE root}
       ELSE bounds[1]..bounds[2]

\* scipy.optimize.least_squares reports success or not (OptimizeResult.success)
\* in each solve that is made: _x_with_balanced_forces solves only on a bound
\* filament, _move_to_dissipate_energy only between two distinct bounds
ForceSolves(l, f) == IF ActinBound(l, f) THEN BOOLEAN ELSE {TRUE}
EnergySolves(target, startx) ==
    LET bounds == MoveBounds(target < 0, startx)
    IN IF bounds[1] = bounds[2] THEN {TRUE} ELSE BOOLEAN

\* the estimate of a solve that did not converge: some location in its bounds
SolverEstimates(target, startx) ==
    LET bounds == MoveBounds(target < 0, startx)
    IN bounds[1]..bounds[2]

\* a solve whose failure is an error
SolveRaisesOnFailure(ok) == ~ok

\* "if optim_out.success is not True: warnings.warn(...)": the warning is
\* issued and the code goes on
SolveRaises(ok) == FALSE

\* Actin.step: "Don't move if in energy constrained state already"
EnergyLockedNever(base_energy, target) == FALSE
EnergyLocked(base_energy, target) == base_energy >= Abs(target)

(******************************** World.step ********************************)
\* the molecules np.random.permutation(all_mols) yields
PermutationWithoutAnchors(all_mols) == all_mols \ Anchors
Permutation(all_mols) == all_mols

LoopNext(td) == IF td = {} THEN "idle" ELSE "loop"

Init ==
    /\ mols \in Worlds
    /\ InitWorldVars
    /\ link = InitLink(mols)
    /\ call = NoCall
    /\ registry = Registered(mols)

\* a tick that takes the molecules out of the tract's lists to visit them
StepBeginDrainsLists ==
    /\ pc = "idle"
    /\ time < MaxTime
    /\ time' = time + 1
    /\ todo' = Permutation(mols)
    /\ visits' = [m \in AllMols |-> 0]
    /\ pc' = LoopNext(todo')
    /\ mols' = {}
    /\ UNCHANGED <<registry, anx, link, ax, cx, hx, mx, mstate, cur, hi, err>>
    /\ call' = NoCall

\* World.step: the tick counter, all_mols and the permutation
StepBegin ==
    /\ pc = "idle"
    /\ time < MaxTime
    /\ time' = time + 1
    /\ todo' = Permutation(mols)
    /\ visits' = [m \in AllMols |-> 0]
    /\ pc' = LoopNext(todo')
    /\ UNCHANGED <<mols, registry, anx, link, ax, cx, hx, mx, mstate, cur, hi, err>>
    /\ call' = NoCall

\* Anchor.step
AnchorStepLetsGo(m) ==
    /\ pc = "loop"
    /\ m \in todo \cap Anchors
    /\ todo' = todo \ {m}
    /\ visits' = [visits EXCEPT ![m] = @ + 1]
    /\ pc' = LoopNext(todo')
    /\ link' = UnbindLink(link, <<"anchorsite", m[2], 0>>)
    /\ UNCHANGED <<mols, registry, anx, ax, cx, hx, mx, mstate, time, cur, hi, err>>
    /\ call' = NoCall
AnchorStep(m) ==
    /\ pc = "loop"
    /\ m \in todo \cap Anchors
    /\ todo' = todo \ {m}
    /\ visits' = [visits EXCEPT ![m] = @ + 1]
    /\ pc' = LoopNext(todo')
    /\ UNCHANGED <<mols, registry, anx, link, ax, cx, hx, mx, mstate, time, cur, hi, err>>
    /\ call' = NoCall

\* Actin.step
ActinStep(f) ==
    /\ pc = "loop"
    /\ f \in todo \cap Actins
    /\ todo' = todo \ {f}
    /\ visits' = [visits EXCEPT ![f] = @ + 1]
    /\ \E forcex \in ForceXs(link, ax, f), target \in Energies,
          force_ok \in ForceSolves(link, f) :
          LET base_energy == HypotheticalEnergy(link, ax, mstate, f, forcex)
              force_warned == IF force_ok THEN {} ELSE {"force minimization"}
              returned(energyx, warned) ==
                  [op |-> "Actin.step", self |-> None, other |-> None,
                   raised |-> FALSE, before |-> Brief(NoCall), mol |-> f,
                   energy_target |-> target, force_x |-> forcex,
                   energy_x |-> energyx, warnings |-> warned]
              stopped(warned) ==
                  /\ ax' = ax
                  /\ call' = [returned(ax[f], warned) EXCEPT !.raised = TRUE]
                  /\ pc' = "raised"
                  /\ err' = "UserWarning: unsuccessful minimization"
          IN IF SolveRaises(force_ok) THEN stopped(force_warned)
             ELSE IF EnergyLocked(base_energy, target)
             THEN /\ ax' = [ax EXCEPT ![f] = forcex]
                  /\ call' = returned(forcex, force_warned)
                  /\ pc' = LoopNext(todo')
                  /\ err' = err
             ELSE IF MoveRaises(target, forcex)
             THEN /\ ax' = ax
                  /\ call' = NoCall
                  /\ pc' = "raised"
                  /\ err' = "ValueError: infeasible bounds"
             ELSE \E energy_ok \in EnergySolves(target, forcex) :
                    LET warned == force_warned \cup
                            (IF energy_ok THEN {} ELSE {"energy minimization"})
                    IN IF SolveRaises(energy_ok) THEN stopped(warned)
                       ELSE /\ \E energyx \in
                                   (IF energy_ok
                                    THEN MoveToDissipateEnergy(link, f, target, forcex)
                                    ELSE SolverEstimates(target, forcex)) :
                                  /\ ax' = [ax EXCEPT ![f] = energyx]
                                  /\ call' = returned(energyx, warned)
                            /\ pc' = LoopNext(todo')
                            /\ err' = err
    /\ UNCHANGED <<mols, registry, anx, link, cx, hx, mx, mstate, time, cur, hi>>

\* AlphaActinin.step up to the visit of the heads
ActininStep(m) ==
    /\ pc = "loop"
    /\ m \in todo \cap Actinins
    /\ todo' = todo \ {m}
    /\ visits' = [visits EXCEPT ![m] = @ + 1]
    /\ IF ~MolBound(link, m)
       THEN \E dx \in Dxs :
               LET moved == cx[m] + dx
                   r == CoerceToBounds(moved, moved + ActininRest, 0, Span)
               IN IF r.raised
                  THEN /\ cx' = [cx EXCEPT ![m] = moved]
                       /\ pc' = "raised"
                       /\ err' = "Exception: coerce_to_bounds"
                       /\ cur' = cur
                  ELSE /\ cx' = [cx EXCEPT ![m] = r.start]
                       /\ pc' = "heads"
                       /\ err' = err
                       /\ cur' = m
       ELSE /\ cx' = [cx EXCEPT ![m] =
                        IF Bound(link, HeadOf(m, 0))
                        THEN SiteX(ax, link[HeadOf(m, 0)])
                        ELSE SiteX(ax, link[HeadOf(m, 1)]) - ActininRest]
            /\ pc' = "heads"
            /\ err' = err
            /\ cur' = m
    /\ hi' = 0
    /\ UNCHANGED <<mols, registry, anx, link, ax, hx, mx, mstate, time>>
    /\ call' = NoCall

\* ActininHead.step of the next head of the running AlphaActinin.step
ActininHeadStep ==
    /\ pc = "heads"
    /\ cur \in Actinins
    /\ LET h == HeadOf(cur, hi)
       IN \E b \in Bops, p \in Probs, check \in Checks :
            LET newx == UpdateX(cx[cur], hi, b)
                out == IF ~Bound(link, h)
                       THEN ActininBindOrNot(mols, link, ax, h, newx, p, check)
                       ELSE ActininUnbindOrNot(link, h, p, check)
            IN /\ hx' = [hx EXCEPT ![h] = newx]
               /\ link' = out.l
               /\ err' = out.e
               /\ IF out.e # NoError
                  THEN pc' = "raised" /\ cur' = cur /\ hi' = hi
                  ELSE IF hi = 0
                  THEN pc' = "heads" /\ cur' = cur /\ hi' = 1
                  ELSE pc' = LoopNext(todo) /\ cur' = NoMol /\ hi' = 0
    /\ UNCHANGED <<mols, registry, anx, ax, cx, mx, mstate, time, todo, visits>>
    /\ call' = NoCall

\* Motor.step up to the visit of the heads
MotorStep(m) ==
    /\ pc = "loop"
    /\ m \in todo \cap Motors
    /\ todo' = todo \ {m}
    /\ visits' = [visits EXCEPT ![m] = @ + 1]
    /\ IF ~MolBound(link, m)
       THEN \E dx \in Dxs :
               LET moved == [mx EXCEPT ![m] = Locs(link, ax, mx, mstate, m)[1] + dx]
                   locs == Locs(link, ax, moved, mstate, m)
                   r == CoerceToBounds(locs[1], locs[2], 0, Span)
               IN IF r.raised
                  THEN /\ mx' = moved
                       /\ pc' = "raised"
                       /\ err' = "Exception: coerce_to_bounds"
                       /\ cur' = cur
                  ELSE /\ mx' = [mx EXCEPT ![m] = r.start]
                       /\ pc' = "heads"
                       /\ err' = err
                       /\ cur' = m
       ELSE /\ mx' = mx
            /\ pc' = "heads"
            /\ err' = err
            /\ cur' = m
    /\ hi' = 0
    /\ UNCHANGED <<mols, registry, anx, link, ax, cx, hx, mstate, time>>
    /\ call' = NoCall

\* one pass of the loop over the heads in the running Motor.step, and the
\* closing _update_x after the second head
MotorHeadVisit ==
    /\ pc = "heads"
    /\ cur \in Motors
    /\ \E pa \in Probs, pb \in Probs, check \in Checks :
          LET out == MotorVisitHead(mols, link, ax, mx, mstate, cur, hi, pa, pb, check)
          IN /\ link' = out.l
             /\ mstate' = out.ms
             /\ err' = out.e
             /\ IF out.e # NoError
                THEN pc' = "raised" /\ cur' = cur /\ hi' = hi /\ mx' = mx
                ELSE IF hi = 0
                THEN pc' = "heads" /\ cur' = cur /\ hi' = 1 /\ mx' = mx
                ELSE /\ pc' = LoopNext(todo)
                     /\ cur' = NoMol
                     /\ hi' = 0
                     /\ mx' = [mx EXCEPT ![cur] = MotorUpdateX(out.l, ax, mx, out.ms, cur)]
    /\ UNCHANGED <<mols, registry, anx, ax, cx, hx, time, todo, visits>>
    /\ call' = NoCall

Next ==
    \/ StepBegin
    \/ \E m \in AllMols : AnchorStep(m)
    \/ \E m \in AllMols : ActinStep(m)
    \/ \E m \in AllMols : ActininStep(m)
    \/ ActininHeadStep
    \/ \E m \in AllMols : MotorStep(m)
    \/ MotorHeadVisit

Spec == Init /\ [][Next]_vars

\* the populations of any per-kind counts, zero included: the worlds above,
\* the empty world, and worlds with a crosslinker or a motor but no filament
AnyWorlds == Worlds \cup {
    {},
    {<<"actin", 1>>},
    {<<"actinin", 1>>},
    {<<"motor", 1>>},
    {<<"actinin", 1>>, <<"motor", 1>>} }

InitAnyWorld ==
    /\ mols \in AnyWorlds
    /\ InitWorldVars
    /\ link = InitLink(mols)
    /\ call = NoCall
    /\ registry = Registered(mols)

SpecAnyWorld == InitAnyWorld /\ [][Next]_vars

\* the worlds as constructed, their filaments then placed and the tract asked
SpecNearest == Init /\ [][NextNearest]_vars


(******************************** properties ********************************)
\* C1: after any sequence of bind and unbind calls, failed calls included, every
\* link is mutual: s.link == t implies t.link == s
C1_LinkIsMutual == \A s \in Sites : Bound(link, s) => link[link[s]] = s

\* a failed call was made while two different sites are linked to each other
C1_Witness ==
    /\ call.raised
    /\ \E s \in ApiSites : \E t \in ApiSites : s # t /\ link[s] = t

\* C8: bind(other) raises whenever the calling site or the other site is already
\* bound, and the failed call changes no link
C8_BindOnBoundFails ==
    [][(call'.op = "bind" /\ (Bound(link, call'.self) \/ Bound(link, call'.other)))
          => (call'.raised /\ link' = link)]_vars

\* a bind of an unbound site to an already-bound site was refused
C8_Witness ==
    /\ call.op = "bind"
    /\ call.raised
    /\ ~Bound(link, call.self)
    /\ Bound(link, call.other)

\* C9: unbind() raises whenever the site is not bound, and the failed call leaves
\* every link unchanged
C9_UnbindOnUnboundFails ==
    [][(call'.op = "unbind" /\ ~Bound(link, call'.self))
          => (call'.raised /\ link' = link)]_vars

\* an unbind of an unbound site was refused while other sites are linked
C9_Witness ==
    /\ call.op = "unbind"
    /\ call.raised
    /\ ~Bound(link, call.self)
    /\ \E s \in ApiSites : Bound(link, s)

\* C10: for unbound sites A and B, after A.bind(B) both are bound, A.linked is
\* B's owner, B.linked is A's owner, and no other site's link has changed
C10_BindLinksBothWays ==
    [][(call'.op = "bind" /\ ~Bound(link, call'.self) /\ ~Bound(link, call'.other))
          => LET a == call'.self
                 b == call'.other
             IN /\ ~call'.raised
                /\ Bound(link', a)
                /\ Bound(link', b)
                /\ Linked(link', a) = Parent(b)
                /\ Linked(link', b) = Parent(a)
                /\ \A s \in Sites \ {a, b} : link'[s] = link[s]]_vars

\* two different unbound sites were bound while another pair of sites is linked
C10_Witness ==
    /\ call.op = "bind"
    /\ ~call.raised
    /\ call.self # call.other
    /\ link[call.self] = call.other
    /\ \E s \in ApiSites \ {call.self, call.other} : Bound(link, s)

\* C11: bind-then-unbind is a round trip: when A.bind(B) of two unbound sites is
\* followed by unbind() on A or on B, the unbind returns normally, both sites
\* are unbound with linked None, and A.bind(B) is possible again
C11_BindUnbindRoundTrip ==
    [][(/\ call.op = "bind" /\ ~call.raised
        /\ call'.op = "unbind" /\ call'.self \in {call.self, call.other})
          => LET a == call.self
                 b == call.other
             IN /\ ~call'.raised
                /\ ~Bound(link', a) /\ ~Bound(link', b)
                /\ Linked(link', a) = Parent(None)
                /\ Linked(link', b) = Parent(None)
                /\ ~BindRaises(link', a, b)
                /\ \A s \in Sites \ {a, b} : link'[s] = link[s]]_vars

\* A.bind(B) of two different sites was followed by B.unbind(), and after it
\* both are unbound
C11_Witness ==
    /\ call.op = "unbind" /\ ~call.raised
    /\ call.before[1] = "bind" /\ ~call.before[4]
    /\ call.before[2] # call.before[3]
    /\ call.self = call.before[3]
    /\ ~Bound(link, call.before[2]) /\ ~Bound(link, call.before[3])

\* C12: after any sequence of bind and unbind calls, the calling site itself
\* allowed as argument, every site's link is empty or refers to a site other
\* than the site itself
C12_LinkIsAnotherSite == \A s \in Sites : link[s] # s

\* C13: a tick always completes: in every world whose molecules fit inside the
\* span, whatever the per-kind counts, no molecule step raises out of World.step
C13_TickAlwaysCompletes == pc # "raised" /\ err = NoError

\* the step() call World.step makes on molecule m
VisitMol(m) == AnchorStep(m) \/ ActinStep(m) \/ ActininStep(m) \/ MotorStep(m)

\* C2: each call of World.step increases World.time by exactly 1 and calls
\* step() exactly once on every registered molecule of every kind; within the
\* tick no molecule is stepped twice or skipped, and any not-yet-visited
\* molecule may be the next one visited
C2_EveryMoleculeOncePerTick ==
    /\ [][IF pc = "idle" THEN time' = time + 1 ELSE time' = time]_vars
    /\ [](\A m \in AllMols : visits[m] <= 1)
    /\ []((pc = "idle" /\ time > 0) => \A m \in mols : visits[m] = 1)
    /\ [](pc = "loop" => \A m \in todo : ENABLED VisitMol(m))

\* the second tick of a world with all four kinds of molecule has returned
C2_Witness ==
    /\ pc = "idle"
    /\ time = 2
    /\ \A m \in mols : visits[m] = 1
    /\ mols \cap Actins # {} /\ mols \cap Actinins # {}
    /\ mols \cap Motors # {} /\ mols \cap Anchors # {}

\* the head the running molecule step visits next, and where a motor head is
VisitedHead == HeadOf(cur, hi)
MotorHeadX(m, side) == Locs(link, ax, mx, mstate, m)[side + 1]

\* C3: steps run one after another against the live links: when the nearest
\* site of an unbound head is occupied at the moment the head is visited (by a
\* link made earlier in the same tick or before), the visit returns normally
\* and leaves the head unbound and every link as it was; no site is ever linked
\* from two heads
C3_LaterHeadSeesEarlierLink ==
    /\ [][(pc = "heads" /\ cur \in Motors /\ ~Bound(link, VisitedHead)
              /\ mstate[VisitedHead] = 0
              /\ Bound(link, NearestBindingSite(mols, ax, MotorHeadX(cur, hi))))
            => (link' = link /\ mstate' = mstate /\ err' = NoError)]_vars
    /\ [][(pc = "heads" /\ cur \in Actinins /\ ~Bound(link, VisitedHead)
              /\ Bound(link, NearestBindingSite(mols, ax, hx'[VisitedHead])))
            => (link' = link /\ err' = NoError)]_vars
    /\ [](\A g \in PairSites : Cardinality({h \in HeadSites : link[h] = g}) <= 1)

\* in the first tick the crosslinker has bound a site, and the motor, visited
\* later in that tick, has found that site nearest to its head 0 and left the
\* head unbound
C3_Witness ==
    /\ time = 1
    /\ pc = "heads" /\ cur \in Motors /\ hi = 1
    /\ mstate[HeadOf(cur, 0)] = 0
    /\ ~Bound(link, HeadOf(cur, 0))
    /\ link[NearestBindingSite(mols, ax, MotorHeadX(cur, 0))] \in ActininHeadSites

C5_NoStateSkipped ==
    /\ [][\A h \in MotorHeadSites :
            /\ mstate[h] = 0 => mstate'[h] \in {0, 1}
            /\ (mstate'[h] = 2 /\ mstate[h] # 2) => mstate[h] = 1]_vars
    /\ [](\A m \in Motors : visits[m] <= 1)

\* a head that began the first tick unbound is weak when the tick returns
C5_Witness ==
    /\ time = 1
    /\ pc = "idle"
    /\ \E h \in MotorHeadSites : mstate[h] = 1

\* C6: no head binds to an occupied site: the already-bound assertions of bind
\* never fire in World.step, an occupied site keeps its occupant until that
\* occupant unbinds, and a head that becomes bound takes a site that was free
C6_NoBindToOccupiedSite ==
    /\ [](err # "AssertionError: already-bound site")
    /\ [][\A g \in PairSites : Bound(link, g) => link'[g] \in {link[g], None}]_vars
    /\ [][\A h \in HeadSites :
            (~Bound(link, h) /\ Bound(link', h)) => ~Bound(link, link'[h])]_vars

\* the crosslinker's head 0 has been visited with an occupied site nearest to
\* it and is still unbound
C6_Witness ==
    /\ pc = "heads" /\ cur \in Actinins /\ hi = 1
    /\ time = 1
    /\ ~Bound(link, HeadOf(cur, 0))
    /\ Bound(link, NearestBindingSite(mols, ax, hx[HeadOf(cur, 0)]))

\* C7: no crosslinker and no motor has both heads linked to pairs of the same
\* filament
C7_NoSelfBinding ==
    \A m \in Actinins \cup Motors :
        ~(/\ Bound(link, HeadOf(m, 0))
          /\ Bound(link, HeadOf(m, 1))
          /\ Filament(link[HeadOf(m, 0)]) = Filament(link[HeadOf(m, 1)]))

\* in the first tick the crosslinker was visited first: its head 0 bound, and
\* head 1, whose nearest site is a free pair of the same filament, did not
C7_Witness ==
    \E m \in Actinins :
        /\ time = 1 /\ pc = "loop" /\ todo = mols \ {m}
        /\ Bound(link, HeadOf(m, 0))
        /\ ~Bound(link, HeadOf(m, 1))
        /\ LET g == NearestBindingSite(mols, ax, hx[HeadOf(m, 1)])
           IN ~Bound(link, g) /\ Filament(g) = Filament(link[HeadOf(m, 0)])

\* the free (unbound) pairs of the registered filaments, and those of them that
\* no other free pair is nearer to x than
FreePairs(reg, l) == {g \in PairSites : Filament(g) \in reg /\ ~Bound(l, g)}
NearestFreePairs(reg, l, a, x) ==
    {g \in FreePairs(reg, l) :
        \A g2 \in FreePairs(reg, l) : Abs(SiteX(a, g) - x) <= Abs(SiteX(a, g2) - x)}

\* C14: when an unbound crosslinker head steps and at least one free site is
\* reachable, the head makes its binding attempt on the nearest free site:
\* wherever the head is placed, binding to a nearest free site is a possible
\* outcome of the step (taken here with the other head unbound, so that no
\* site is excluded as self-binding)
C14_TriesNearestFreeSite ==
    (/\ pc = "heads" /\ cur \in Actinins
     /\ ~Bound(link, VisitedHead) /\ ~Bound(link, OtherHead(VisitedHead))
     /\ FreePairs(mols, link) # {})
      => \A b \in Bops :
            ENABLED (/\ ActininHeadStep
                     /\ hx'[VisitedHead] = UpdateX(cx[cur], hi, b)
                     /\ link'[VisitedHead] \in
                           NearestFreePairs(mols, link, ax, UpdateX(cx[cur], hi, b)))

\* the locations force(x) and energy(x) are asked for; head.x itself (x = None)
\* is one of them
Xs == 0..Span

\* C15 as claimed: force(x) and energy(x) of a crosslinker or motor head are 0
\* when this head is unbound or the other head is unbound
C15_ZeroUnlessBothBound ==
    \A h \in HeadSites : \A x \in Xs :
        (~Bound(link, h) \/ ~Bound(link, OtherHead(h)))
          => /\ HeadForce(link, ax, mstate, h, x) = 0
             /\ HeadEnergy(link, ax, mstate, h, x) = 0

\* C15 as amended: force(x) and energy(x) are 0 whenever the OTHER head is
\* unbound; when the other head is bound they are 0 only where |x - other.x|
\* is the rest length, whether or not this head is bound
C15_ZeroWhenOtherHeadUnbound ==
    \A h \in HeadSites : \A x \in Xs \cup {HeadXOf(link, ax, mstate, h)} :
        LET f == HeadForce(link, ax, mstate, h, x)
            e == HeadEnergy(link, ax, mstate, h, x)
            length == Abs(x - HeadXOf(link, ax, mstate, OtherHead(h)))
        IN /\ ~Bound(link, OtherHead(h)) => (f = 0 /\ e = 0)
           /\ Bound(link, OtherHead(h)) =>
                 /\ (e = 0) <=> (length = HeadRest(mstate, h))
                 /\ (f = 0) <=> (length = HeadRest(mstate, h))

\* an unbound head whose other head is bound feels a force at some location,
\* and that other, bound head feels none
C15_Witness ==
    \E h \in HeadSites :
        /\ ~Bound(link, h) /\ Bound(link, OtherHead(h))
        /\ \E x \in Xs : HeadForce(link, ax, mstate, h, x) # 0
        /\ \A x \in Xs : HeadForce(link, ax, mstate, OtherHead(h), x) = 0

\* C16: when no pair of a filament is bound, Actin.step displaces the filament
\* by its one random sample (taken as a displacement) and reflects it at the
\* space boundary with coerce_to_bounds
C16_UnboundFilamentDiffuses ==
    [][(call'.op = "Actin.step" /\ ~ActinBound(link, call'.mol))
          => LET f == call'.mol
                 dx == call'.energy_target \div Drag
                 r == CoerceToBounds(ax[f] + dx, ax[f] + dx + Length, 0, Span)
             IN ~r.raised /\ ax'[f] = r.start]_vars

\* C17: for a filament with a bound pair, Actin.step ends exactly at the
\* force-balanced position x* when the bound-spring energy at x* is at least
\* the absolute energy budget; otherwise it ends not right of x* for a negative
\* budget and not left of x* for a positive one; (x*, end) is what it returns
C17_BoundFilamentMove ==
    [][(call'.op = "Actin.step" /\ ActinBound(link, call'.mol))
          => LET f == call'.mol
                 xstar == call'.force_x
                 budget == call'.energy_target
                 base == HypotheticalEnergy(link, ax, mstate, f, xstar)
             IN /\ base >= Abs(budget) => ax'[f] = xstar
                /\ (base < Abs(budget) /\ budget < 0) => ax'[f] <= xstar
                /\ (base < Abs(budget) /\ budget > 0) => ax'[f] >= xstar
                /\ call'.energy_x = ax'[f]
                /\ \A g \in Actins \ {f} : ax'[g] = ax[g]]_vars

\* a filament with a pair held by a head has stepped with a negative budget
\* larger than the spring energy at x* and has ended left of x*
C17_Witness ==
    /\ call.op = "Actin.step"
    /\ \E i \in 0..(NPairs - 1) : link[<<"gactin", call.mol[2], i>>] \in HeadSites
    /\ call.energy_target < 0
    /\ HypotheticalEnergy(link, ax, mstate, call.mol, call.force_x)
          < Abs(call.energy_target)
    /\ ax[call.mol] < call.force_x

\* C18: an anchor stays as created through any number of ticks: its x never
\* changes, its site stays linked to the g-actin site it was created on (and
\* that site to it) in every reachable state, and Anchor.step changes nothing
C18_AnchorStaysAsCreated ==
    /\ [](\A a \in Anchors \cap mols :
            /\ anx[a] = AnchorX(a)
            /\ link[<<"anchorsite", a[2], 0>>] = AnchoredPair(a)
            /\ link[AnchoredPair(a)] = <<"anchorsite", a[2], 0>>)
    /\ [][\A a \in Anchors :
            visits'[a] = visits[a] + 1
              => UNCHANGED <<mols, anx, link, ax, cx, hx, mx, mstate, time>>]_vars

\* two ticks have returned in the world with an anchor: the anchor was stepped,
\* the filament it holds has moved away from under it, and a crosslinker or
\* motor head is bound to the pair next to the anchored one
C18_Witness ==
    /\ time = 2 /\ pc = "idle"
    /\ \E a \in Anchors \cap mols :
          /\ visits[a] = 1
          /\ SiteX(ax, AnchoredPair(a)) # anx[a]
          /\ link[<<"gactin", AnchoredPair(a)[2], AnchoredPair(a)[3] - 1>>] \in HeadSites

\* C19: for start <= end, lo <= hi and end - start <= hi - lo,
\* coerce_to_bounds returns (s, e) of the same length inside the bounds; an
\* interval already inside is returned unchanged, and one that overshoots a
\* boundary by d and then fits comes back mirrored, d inside that boundary
C19_CoerceReturnsInside ==
    [][call'.op = "coerce_to_bounds"
          => LET m1 == call'.args[1]
                 m2 == call'.args[2]
                 b1 == call'.args[3]
                 b2 == call'.args[4]
                 s == call'.out[1]
                 e == call'.out[2]
             IN (m1 <= m2 /\ b1 <= b2 /\ m2 - m1 <= b2 - b1)
                  => /\ ~call'.raised
                     /\ e - s = m2 - m1
                     /\ b1 <= s /\ s <= e /\ e <= b2
                     /\ (b1 <= m1 /\ m2 <= b2) => (s = m1 /\ e = m2)
                     /\ (m1 < b1 /\ m2 + 2 * (b1 - m1) <= b2) => s = b1 + (b1 - m1)
                     /\ (m2 > b2 /\ m1 - 2 * (m2 - b2) >= b1) => e = b2 - (m2 - b2)]_vars

C21_NeighborsAtDistanceOne ==
    (call.op = "neighbors" /\ WithinRadius(call.args[3], call.args[1]))
        => \A p \in 1..Len(call.out) : call.out[p].distance = 1

\* a mirrored grid returned a neighbour folded across the boundary: it is not
\* one of the six adjacent coordinates of loc, and it is at distance 1
C21_Witness ==
    /\ call.op = "neighbors" /\ call.args[2]
    /\ WithinRadius(call.args[3], call.args[1])
    /\ Len(call.out) = 6
    /\ \E p \in 1..6 : /\ call.out[p].nb # CubeNeighbors(call.args[3])[p]
                       /\ call.out[p].distance = 1

\* C22: on a mirrored grid of radius n, mirror(loc) returns a coordinate within
\* radius n for every valid loc, however far outside the grid it lies, and
\* returns a loc that is already within the radius unchanged
C22_MirrorWithinRadius ==
    call.op = "mirror"
        => /\ WithinRadius(call.out, call.args[1])
           /\ WithinRadius(call.args[2], call.args[1]) => call.out = call.args[2]

\* C24: World.step creates and destroys no molecule and no binding site: the
\* tract's registry holds the same molecules under the same ids, and the same
\* sites exist, before and after every step of every tick
C24_StepKeepsMolecules ==
    [][mols' = mols /\ DOMAIN link' = DOMAIN link]_vars

\* after the last tick of the world with an anchored filament, a crosslinker
\* and a motor, a motor head has changed state, a link has been made or
\* broken and the crosslinker has moved, and the registry is the one the world
\* was built with
C24_Witness ==
    /\ time = MaxTime /\ pc = "idle"
    /\ mols = {<<"actin", 1>>, <<"actinin", 1>>, <<"motor", 1>>, <<"anchor", 1>>}
    /\ \E h \in MotorHeadSites : mstate[h] # 0
    /\ link # InitLink(mols)
    /\ cx # [c \in Actinins |-> 0]

\* C25: in every reachable state a bound crosslinker or motor head is linked to
\* a g-actin pair and is located where that pair is now (it moves with the
\* filament); between the steps of the molecules an unbound head is located
\* where its parent's position puts it: a crosslinker head at the parent's x
\* (side 0) or x + rest (side 1) displaced by one thermal sample, a motor head at
\* the motor's x (side 0) or x + rest (side 1)
C25_HeadLocation ==
    \A h \in HeadSites :
        LET x == HeadXOf(link, ax, mstate, h)
        IN /\ Bound(link, h)
                => (link[h] \in PairSites /\ x = SiteX(ax, link[h]))
           /\ (~Bound(link, h) /\ pc \in {"idle", "loop"})
                => IF h[1] = "actininhead"
                   THEN \E b \in Bops : x = UpdateX(cx[<<"actinin", h[2]>>], h[3], b)
                   ELSE x = MotorHeadX(<<"motor", h[2]>>, 0)
                              + (IF h[3] = 1 THEN HeadRest(mstate, h) ELSE 0)

\* a filament held by one head of a crosslinker has just stepped away from
\* where it was created, and the crosslinker's other head is unbound
C25_Witness ==
    /\ call.op = "Actin.step"
    /\ ax[call.mol] # (IF call.mol[2] = 1 THEN 0 ELSE Span - Length)
    /\ \E h \in ActininHeadSites :
          /\ Bound(link, h) /\ link[h] \in PairSites
          /\ Filament(link[h]) = call.mol
          /\ ~Bound(link, OtherHead(h))

\* C26: a solve that reports non-convergence is recoverable: the Actin.step
\* that warned returns normally with the solver's estimate as the filament's
\* position, the tick goes on to the remaining molecules and no link changes
C26_NonConvergenceIsRecoverable ==
    [][(call'.op = "Actin.step" /\ call'.warnings # {})
          => /\ ~call'.raised
             /\ pc' = LoopNext(todo') /\ err' = err
             /\ ax' = [ax EXCEPT ![call'.mol] = call'.energy_x]
             /\ todo' = todo \ {call'.mol}
             /\ link' = link]_vars

\* the energy solve of a filament held by a head did not converge, other
\* molecules were still to be visited, and the filament took an estimate that
\* is not the point of balanced forces
C26_Witness ==
    /\ call.op = "Actin.step"
    /\ "energy minimization" \in call.warnings
    /\ \E i \in 0..(NPairs - 1) : link[<<"gactin", call.mol[2], i>>] \in HeadSites
    /\ ax[call.mol] = call.energy_x /\ call.energy_x # call.force_x
    /\ pc = "loop" /\ todo # {}

\* the exponential the recorded reverse_rate call took of its free energy
\* difference
CalledExp == MathExp(call.args[2] - call.args[3])

\* C27: reverse_rate never raises: when the exponential of (free_energy_1 -
\* free_energy_2) overflows it returns 0, when the exponential is zero it
\* returns infinity, and otherwise it returns rate_fwd divided by the exponential
C27_ReverseRateNeverRaises ==
    call.op = "reverse_rate"
        => /\ ~call.raised
           /\ CalledExp.raised => call.out = Zero
           /\ (~CalledExp.raised /\ CalledExp.v = Zero) => call.out = Inf
           /\ (~CalledExp.raised /\ CalledExp.v # Zero)
                 => call.out = FloatDivide(call.args[1], CalledExp.v).v

\* a zero rate was divided by an exponential that had underflowed to zero,
\* and infinity came back
C27_Witness ==
    /\ call.op = "reverse_rate"
    /\ call.args[1] = Zero
    /\ ~CalledExp.raised /\ CalledExp.v = Zero
    /\ ~call.raised /\ call.out = Inf

\* C30: rate_to_prob(0, dt) is 0 for every dt; for rate >= 0 and dt >= 0 the
\* result lies in [0, 1], comes within 2^-j of 1 once rate * dt reaches
\* j * ln 2 (so it tends to 1 as the rate grows), and of two calls the one with
\* the larger rate and the larger dt returns the larger (or the same) result
C30_RateToProb ==
    /\ [](call.op = "rate_to_prob"
            => /\ call.args[1] = 0 => call.out = 0
               /\ 0 <= call.out /\ call.out <= One
               /\ \A j \in 0..ExpBits :
                     call.args[1] * call.args[2] >= j
                        => call.out >= One - 2 ^ (ExpBits - j))
    /\ [][(/\ call.op = "rate_to_prob" /\ call'.op = "rate_to_prob"
           /\ call.args[1] <= call'.args[1]
           /\ call.args[2] <= call'.args[2]) => call.out <= call'.out]_vars

\* a call with rate * dt = 2 ln 2, where the first-order approximation is above
\* 1, returned 3/4
C30_Witness ==
    /\ call.op = "rate_to_prob"
    /\ call.args[1] * call.args[2] = 2
    /\ 4 * call.out = 3 * One

\* C28: constructing a Spring with negative stiffness k raises instead of
\* returning a spring object
C28_NegativeStiffnessRaises ==
    (call.op = "Spring" /\ call.args[1] < 0) => call.raised

\* C29: for every valid cube coordinate (i + j + k = 0) the conversion to axial
\* coordinates and back returns the coordinate it was given
C29_CubeAxialRoundTrip ==
    (call.op = "round_trip" /\ CubeValidate(call.args)) => call.out = call.args

\* a valid coordinate with three different entries made the round trip
C29_Witness ==
    /\ call.op = "round_trip" /\ CubeValidate(call.args)
    /\ call.args[1] # call.args[2] /\ call.args[2] # call.args[3]
    /\ call.args[1] # call.args[3]
    /\ call.out = call.args

\* C31: coerce_to_bounds terminates for every input that passes its two
\* checks: a call that has been entered returns (or raises) after finitely
\* many frames, also for a segment as long as the span that starts outside it
C31_CoerceTerminates ==
    (call.op = "coerce_to_bounds frame") ~> (call.op = "coerce_to_bounds frame" /\ call.done)

\* C32: a filament stays inside its tract: after every Actin.step, bound or
\* not and whichever branch of the motion rule ran, 0 <= x <= span - length
C32_FilamentStaysInTract ==
    \A f \in Actins \cap mols : 0 <= ax[f] /\ ax[f] <= Span - Length

\* a filament held by a head has stepped off its point of balanced forces and
\* has ended at the right end of the window
C32_Witness ==
    /\ call.op = "Actin.step"
    /\ \E i \in 0..(NPairs - 1) : link[<<"gactin", call.mol[2], i>>] \in HeadSites
    /\ call.energy_x # call.force_x
    /\ ax[call.mol] = Span - Length

\* C33: after any sequence of add_mol calls the list and the id map of every
\* kind hold the same molecules, each once, under pairwise distinct ids; an
\* add_mol of a molecule already registered under the kind fails and leaves the
\* list and the map as they were
C33_ListAndMapAgree ==
    /\ [](/\ DOMAIN registry.list = DOMAIN registry.named
          /\ \A k \in DOMAIN registry.list :
                LET list == registry.list[k]
                    named == registry.named[k]
                IN /\ \A i, j \in 1..Len(list) : list[i] = list[j] => i = j
                   /\ {list[i] : i \in 1..Len(list)}
                         = {named[id] : id \in DOMAIN named}
                   /\ \A a, b \in DOMAIN named : named[a] = named[b] => a = b)
    /\ [][call'.op = "add_mol"
            => /\ call'.raised
                    <=> /\ call'.args[1] \in DOMAIN registry.list
                        /\ \E i \in 1..Len(registry.list[call'.args[1]]) :
                               registry.list[call'.args[1]][i] = call'.args[2]
               /\ call'.raised => registry' = registry]_vars

\* a molecule registered under two kinds was added again under one of them:
\* the call failed and both lists still hold it once
C33_Witness ==
    /\ call.op = "add_mol" /\ call.raised
    /\ \A k \in {"actin", "actinin"} :
          /\ k \in DOMAIN registry.list
          /\ \E i \in 1..Len(registry.list[k]) : registry.list[k][i] = call.args[2]

C36_OneTransitionByPriority ==
    (call.op = "MotorHead.step" /\ ~call.raised) =>
        LET state == call.args[1]
            pa == call.args[2]
            pb == call.args[3]
            check == call.args[4]
            first == pa > check
            second == ProbLevels - pb < check
            after == call.out[1]
            bound == call.out[2]
        IN /\ state = 0 => after \in {0, 1}
           /\ (state = 1 /\ first /\ second) => (after = 2 /\ bound)
           /\ (state = 1 /\ first /\ ~second) => (after = 2 /\ bound)
           /\ (state = 1 /\ ~first /\ second) => (after = 0 /\ ~bound)
           /\ (state = 2 /\ first /\ second) => (after = 0 /\ ~bound)
           /\ (state = 2 /\ ~first /\ second) => (after = 1 /\ bound)
           /\ (state # 0 /\ ~first /\ ~second) => (after = state /\ bound)
C36_Witness ==
    /\ call.op = "MotorHead.step"
    /\ call.args[1] = 1
    /\ call.args[2] > call.args[4]
    /\ ProbLevels - call.args[3] < call.args[4]
    /\ call.out = <<2, TRUE>>

\* C37: in a mirrored grid of radius n >= 1 the neighbours of an in-grid
\* coordinate are six, pairwise distinct, all in the grid, and each of them has
\* the coordinate among its own neighbours; in a grid of radius 0, mirrored or
\* not, a coordinate has no neighbours
C37_SixSymmetricNeighbors ==
    (call.op = "neighbors") =>
        LET n == call.args[1]
            mirror == call.args[2]
            loc == call.args[3]
            nbs == [p \in 1..Len(call.out) |-> call.out[p].nb]
        IN /\ n = 0 => nbs = << >>
           /\ (n >= 1 /\ mirror /\ WithinRadius(loc, n)) =>
                 /\ Len(nbs) = 6
                 /\ \A p, q \in 1..Len(nbs) : p # q => nbs[p] # nbs[q]
                 /\ \A p \in 1..Len(nbs) :
                       /\ WithinRadius(nbs[p], n)
                       /\ \E q \in 1..6 : GridNeighbors(n, TRUE, nbs[p])[q] = loc
\* a neighbour of a coordinate on the rim of a mirrored grid of radius 2 that
\* was folded back into the grid
C37_Witness ==
    /\ call.op = "neighbors"
    /\ call.args[1] = 2
    /\ call.args[2]
    /\ WithinRadius(call.args[3], 2)
    /\ Len(call.out) = 6
    /\ \E p \in 1..6 : CubeDistance(call.args[3], call.out[p].nb) > 1
====
